---------------------------- MODULE Spec2Model ----------------------------
(***************************************************************************)
(* Browser client of the vehicle-complaint system.                         *)
(*                                                                         *)
(*   frontend/js/api.js   apiRequest, the endpoint functions and the       *)
(*                        streaming reader sendChatMessage                 *)
(*   COMMANDS_ONLY.md     lines 85-465: the page controller (globals,      *)
(*                        handleComplaintSubmit, startChat, sendMessage,   *)
(*                        closeChat, searchVehicle and their renderers)    *)
(*                                                                         *)
(* JavaScript values are modelled as follows.  An object is a record.  A   *)
(* JSON value that is not an object is a record with a jsonType field.     *)
(* Short fixed texts (error messages, alert texts) are strings; texts the  *)
(* code scans character by character (stream chunks, chat input) are        *)
(* sequences of one-character strings.  Bytes are numbers 0..255.          *)
(*                                                                         *)
(* An async function runs without interruption from one await to the next; *)
(* every action of the model is one such run: it starts when the promise   *)
(* the function awaits is settled by the network (or when the user starts  *)
(* the handler) and ends at the next await or at the return.               *)
(*                                                                         *)
(* Left out of the page: scroll positions (and the setTimeout that sets    *)
(* one), the typingIndicator element (no code creates it), console output. *)
(* The decoder covers one- and two-byte UTF-8 sequences; the texts of the  *)
(* model hold no U+FEFF, which TextDecoder would strip at the start.       *)
(***************************************************************************)
EXTENDS Integers, Sequences, FiniteSets, TLC

VARIABLES
    apiCall,     \* one call of apiRequest followed alone (SpecApi)
    apiNet,      \* what the network answered to apiCall: fetch, response.json()
    scm,         \* one call of sendChatMessage followed alone (SpecStream)
    scmNet,      \* what the network answered to scm: fetch, a failed read
    delivered,   \* the byte chunks the stream of scm has delivered so far
    currentComplaint,     \* COMMANDS_ONLY.md line 88
    currentChatSession,   \* line 89
    currentCar,           \* line 90
    dom,         \* the elements of the page the controller reads and writes
    tasks,       \* the pending calls of the async handlers, by task id
    actions,     \* how many handlers the user has started
    last,        \* the run of a handler that led to this state
    pure         \* one call of a renderer followed alone (SpecPure)

apiVars == <<apiCall, apiNet>>
streamVars == <<scm, scmNet, delivered>>
appVars == <<currentComplaint, currentChatSession, currentCar, dom, tasks,
             actions, last>>
pureVars == <<pure>>
vars == <<apiCall, apiNet, scm, scmNet, delivered, currentComplaint,
          currentChatSession, currentCar, dom, tasks, actions, last, pure>>

\* no renderer is followed
NoPureCall == [fn |-> "none"]

----------------------------------------------------------------------------
(* JavaScript values *)

Null == [jsonType |-> "null"]
Undefined == [jsonType |-> "undefined"]

JsString(s) == [jsonType |-> "string", s |-> s]
JsNumber(n) == [jsonType |-> "number", n |-> n]
JsBoolean(b) == [jsonType |-> "boolean", b |-> b]
JsArray == [jsonType |-> "array"]

IsPrimitive(v) == "jsonType" \in DOMAIN v
IsObject(v) == ~IsPrimitive(v)
IsNullish(v) == v = Null \/ v = Undefined

\* v.name for a value that is not null or undefined
GetField(v, name) ==
    IF IsObject(v) /\ name \in DOMAIN v THEN v[name] ELSE Undefined

\* ToBoolean
Truthy(v) ==
    IF IsObject(v) THEN TRUE
    ELSE CASE v.jsonType = "string" -> v.s # ""
           [] v.jsonType = "number" -> v.n # 0
           [] v.jsonType = "boolean" -> v.b
           [] v.jsonType = "array" -> TRUE
           [] OTHER -> FALSE

\* the decimal digits of the numbers the model's bodies hold
NumberToString(n) ==
    CASE n = 0 -> "0"
      [] n = 7 -> "7"
      [] OTHER -> "NaN"

\* ToString, as new Error(v) applies it to its argument
JsToString(v) ==
    IF IsObject(v) THEN "[object Object]"
    ELSE CASE v.jsonType = "string" -> v.s
           [] v.jsonType = "number" -> NumberToString(v.n)
           [] v.jsonType = "boolean" -> (IF v.b THEN "true" ELSE "false")
           [] v.jsonType = "array" -> ""
           [] OTHER -> v.jsonType

\* An exception object; only its message is read by the code.
Exception(name, message) == [name |-> name, message |-> message]
NoException == [name |-> "", message |-> ""]

\* { ...f, ...g }
Spread(f, g) ==
    [k \in DOMAIN f \cup DOMAIN g |-> IF k \in DOMAIN g THEN g[k] ELSE f[k]]

----------------------------------------------------------------------------
(* api.js: endpoints *)

API_BASE_URL == "/api/v1"

API_ENDPOINTS ==
    [complaints |-> [quickSubmit |-> [base |-> API_BASE_URL, path |-> "/complaints/quick-submit/"],
                     statistics |-> [base |-> API_BASE_URL, path |-> "/complaints/statistics/"]],
     cars |-> [byPlate |-> [base |-> API_BASE_URL, path |-> "/cars/by_license_plate/"]],
     chat |-> [createSession |-> [base |-> API_BASE_URL, path |-> "/chat/sessions/"]]]

CarsHistory(id) == [base |-> API_BASE_URL, path |-> "/cars/{id}/complaint_history/", id |-> id]
ChatSessionDetail(id) == [base |-> API_BASE_URL, path |-> "/chat/sessions/{id}/", id |-> id]
ChatSendMessage(id) == [base |-> API_BASE_URL, path |-> "/chat/sessions/{id}/send_message/", id |-> id]
ChatCloseSession(id) == [base |-> API_BASE_URL, path |-> "/chat/sessions/{id}/close/", id |-> id]

----------------------------------------------------------------------------
(* api.js: apiRequest *)

GenericFailure == "API request failed"

\* What the engine reports for reading a property of null.
NullPropertyMessage == "Cannot read properties of null (reading 'message')"

\* lines 34-47: the default headers, overridden by the caller's
FinalOptions(options) ==
    LET defaultOptions == [headers |-> [ContentType |-> "application/json"]]
        callerHeaders == IF "headers" \in DOMAIN options
                         THEN options.headers ELSE << >>
    IN  [k \in DOMAIN defaultOptions \cup DOMAIN options |->
            IF k = "headers"
            THEN Spread(defaultOptions.headers, callerHeaders)
            ELSE options[k]]

\* A catch block that logs and throws the error again
ApiCatchRethrow(call, error) ==
    [call EXCEPT !.pc = "done",
                 !.thrown = error,
                 !.settled = "rejected"]

\* lines 58-61: the catch block
ApiCatch(call, error) ==
    [call EXCEPT !.pc = "done",
                 !.thrown = error,
                 !.settled = "fulfilled",
                 !.result = [success |-> FALSE, error |-> error.message]]

\* lines 33-50: the call up to its first await; fetch is issued
ApiBegin(url, options) ==
    [pc |-> "fetch",
     request |-> [url |-> url, options |-> FinalOptions(options)],
     response |-> Null,
     thrown |-> NoException,
     settled |-> "pending",
     result |-> Null]

\* line 50 resumes: fetch settled with outcome fo; response.json() is called
ApiOnFetch(call, fo) ==
    IF fo.kind = "reject"
    THEN ApiCatch(call, fo.error)
    ELSE [call EXCEPT !.pc = "json", !.response = [ok |-> fo.ok, status |-> fo.status]]

\* data.message ?? 'API request failed' in place of ||
ApiOnJsonMessageIfPresent(call, jo) ==
    IF jo.kind = "reject"
    THEN ApiCatch(call, jo.error)
    ELSE LET data == jo.value IN
         IF ~call.response.ok
         THEN IF IsNullish(data)
              THEN ApiCatch(call, Exception("TypeError", NullPropertyMessage))
              ELSE LET message == GetField(data, "message") IN
                   ApiCatch(call, Exception("Error",
                       IF ~IsNullish(message) THEN JsToString(message) ELSE GenericFailure))
         ELSE [call EXCEPT !.pc = "done",
                           !.settled = "fulfilled",
                           !.result = [success |-> TRUE, data |-> data]]

\* lines 51-57 resume: response.json() settled with outcome jo
ApiOnJson(call, jo) ==
    IF jo.kind = "reject"
    THEN ApiCatch(call, jo.error)
    ELSE LET data == jo.value IN
         IF ~call.response.ok
         THEN IF IsNullish(data)
              THEN ApiCatch(call, Exception("TypeError", NullPropertyMessage))
              ELSE LET message == GetField(data, "message") IN
                   ApiCatch(call, Exception("Error",
                       IF Truthy(message) THEN JsToString(message) ELSE GenericFailure))
         ELSE [call EXCEPT !.pc = "done",
                           !.settled = "fulfilled",
                           !.result = [success |-> TRUE, data |-> data]]

\* lines 50-61: a pending call once the network answered with o.fo to fetch
\* and, when fetch gave a response, with o.jo to response.json()
ApiSettle(call, o) ==
    LET afterFetch == ApiOnFetch(call, o.fo)
    IN  IF afterFetch.pc = "done" THEN afterFetch ELSE ApiOnJson(afterFetch, o.jo)

\* JSON.stringify of an object of JavaScript values: undefined fields are left out
JsonStringify(obj) ==
    [json |-> [k \in {f \in DOMAIN obj : obj[f] # Undefined} |-> obj[k]]]


\* lines 67-72
submitComplaint(formData) ==
    [url |-> API_ENDPOINTS.complaints.quickSubmit,
     options |-> [method |-> "POST", body |-> JsonStringify(formData)]]

\* lines 75-77
getComplaintStatistics ==
    [url |-> API_ENDPOINTS.complaints.statistics, options |-> << >>]

\* encodeURIComponent on the characters a plate of the model holds
EncodeURIComponent(text) ==
    [i \in 1..Len(text) |-> IF text[i] = " " THEN "%20" ELSE text[i]]

\* lines 80-83
searchCarByPlate(licensePlate) ==
    [url |-> [base |-> API_BASE_URL,
              path |-> API_ENDPOINTS.cars.byPlate.path,
              plate |-> EncodeURIComponent(licensePlate)],
     options |-> << >>]

\* lines 86-88
getCarComplaintHistory(carId) ==
    [url |-> CarsHistory(carId), options |-> << >>]

\* A request that names the first complaint whatever the argument
createChatSessionOfFirst(complaintId) ==
    [url |-> API_ENDPOINTS.chat.createSession,
     options |-> [method |-> "POST",
                  body |-> [json |-> [complaint_id |-> "complaint1"]]]]

\* lines 91-96
createChatSession(complaintId) ==
    [url |-> API_ENDPOINTS.chat.createSession,
     options |-> [method |-> "POST",
                  body |-> [json |-> [complaint_id |-> complaintId]]]]

\* lines 140-142
getChatSession(sessionId) ==
    [url |-> ChatSessionDetail(sessionId), options |-> << >>]

\* lines 145-149
closeChatSession(sessionId) ==
    [url |-> ChatCloseSession(sessionId), options |-> [method |-> "POST"]]

----------------------------------------------------------------------------
(* The network, as apiRequest sees it *)

\* fetch or response.json() has not answered yet
NoOutcome == [kind |-> "none"]

NetworkErrors == {"Failed to fetch", "The operation was aborted."}
ParseErrors == {"Unexpected end of JSON input",
                "Unexpected token < in JSON at position 0"}

Statuses == {200, 201, 400, 404, 500}
StatusOk(status) == 200 <= status /\ status <= 299

FetchRejects ==
    {[kind |-> "reject", error |-> Exception("TypeError", m)] : m \in NetworkErrors}
FetchResponses ==
    {[kind |-> "response", ok |-> StatusOk(s), status |-> s] : s \in Statuses}
FetchOutcomes == FetchRejects \cup FetchResponses

\* The values a body's message field takes.
MessageValues ==
    {JsString(""), JsString("Invalid license plate"), JsString("Server error"),
     JsNumber(0), JsNumber(7), JsBoolean(FALSE), JsBoolean(TRUE), Null,
     [code |-> JsNumber(7)]}

JsonBodies ==
    {Null, JsArray, JsString("Bad Gateway"), JsNumber(7),
     [detail |-> JsString("Not found.")],
     [status |-> JsString("closed")]}
    \cup {[message |-> m] : m \in MessageValues}
    \cup {[message |-> m, code |-> JsNumber(7)] : m \in {JsString("Server error")}}

JsonRejects ==
    {[kind |-> "reject", error |-> Exception("SyntaxError", m)] : m \in ParseErrors}
JsonValues == {[kind |-> "json", value |-> v] : v \in JsonBodies}
JsonOutcomes == JsonRejects \cup JsonValues

\* The calls the functions of api.js make.
ApiRequests ==
    {submitComplaint([customer_email |-> JsString("a@b.c"), car_year |-> Undefined]),
     getComplaintStatistics,
     searchCarByPlate(<<"A", " ", "1">>),
     getCarComplaintHistory("car1"),
     createChatSession("complaint1"),
     getChatSession("session1"),
     closeChatSession("session1"),
     [url |-> API_ENDPOINTS.complaints.statistics,
      options |-> [headers |-> [ContentType |-> "text/plain", Accept |-> "*/*"]]]}

----------------------------------------------------------------------------
(* api.js: the text decoder of sendChatMessage *)

ReplacementChar == "U+FFFD"

\* The character of a code point, for the code points the model's bytes give.
CharOf(cp) ==
    CASE cp = 10 -> "\n"
      [] cp = 32 -> " "
      [] cp = 35 -> "#"
      [] cp = 42 -> "*"
      [] cp = 45 -> "-"
      [] cp = 97 -> "a"
      [] cp = 98 -> "b"
      [] cp = 233 -> "U+00E9"
      [] OTHER -> ReplacementChar

CodePointOf(c) ==
    CASE c = "\n" -> 10
      [] c = " " -> 32
      [] c = "#" -> 35
      [] c = "*" -> 42
      [] c = "-" -> 45
      [] c = "a" -> 97
      [] c = "b" -> 98
      [] c = "U+00E9" -> 233
      [] OTHER -> 65533

\* new TextDecoder(): UTF-8, no byte of a character pending
NewTextDecoder == [pending |-> << >>]

\* One byte through the UTF-8 decoder (bytes below 0xE0: one- and two-byte
\* sequences).  d.pending holds the lead byte of an unfinished character.
DecodeByte(d, byte) ==
    IF d.pending = << >>
    THEN IF byte <= 127
         THEN [pending |-> << >>, text |-> <<CharOf(byte)>>]
         ELSE IF 194 <= byte /\ byte <= 223
              THEN [pending |-> <<byte>>, text |-> << >>]
              ELSE [pending |-> << >>, text |-> <<ReplacementChar>>]
    ELSE IF 128 <= byte /\ byte <= 191
         THEN [pending |-> << >>,
               text |-> <<CharOf((d.pending[1] - 192) * 64 + (byte - 128))>>]
         ELSE \* the unfinished character is replaced, the byte is read again
              IF byte <= 127
              THEN [pending |-> << >>, text |-> <<ReplacementChar, CharOf(byte)>>]
              ELSE IF 194 <= byte /\ byte <= 223
                   THEN [pending |-> <<byte>>, text |-> <<ReplacementChar>>]
                   ELSE [pending |-> << >>,
                         text |-> <<ReplacementChar, ReplacementChar>>]

\* decoder.decode(value, { stream: true }): the text of the bytes of value,
\* an unfinished character kept for the next call
RECURSIVE DecodeStream(_, _)
DecodeStream(d, value) ==
    IF value = << >>
    THEN [pending |-> d.pending, text |-> << >>]
    ELSE LET first == DecodeByte(d, Head(value))
             rest == DecodeStream([pending |-> first.pending], Tail(value))
         IN  [pending |-> rest.pending, text |-> first.text \o rest.text]

\* The UTF-8 bytes of a text (code points below 0x800).
RECURSIVE Utf8Encode(_)
Utf8Encode(text) ==
    IF text = << >> THEN << >>
    ELSE LET cp == CodePointOf(Head(text))
         IN  (IF cp <= 127 THEN <<cp>>
              ELSE <<192 + (cp \div 64), 128 + (cp % 64)>>)
             \o Utf8Encode(Tail(text))

RECURSIVE Flatten(_)
Flatten(seqs) ==
    IF seqs = << >> THEN << >> ELSE Head(seqs) \o Flatten(Tail(seqs))

----------------------------------------------------------------------------
(* api.js: sendChatMessage *)

GetReaderOfNullMessage == "Cannot read properties of null (reading 'getReader')"

\* A catch block that hands back the text read so far
ScmCatchKeepingText(call, error) ==
    [call EXCEPT !.pc = "done",
                 !.thrown = error,
                 !.settled = "fulfilled",
                 !.result = [success |-> FALSE, error |-> error.message,
                             data |-> [ai_response |-> [message |-> call.fullResponse]]]]

\* lines 133-136: the catch block
ScmCatch(call, error) ==
    [call EXCEPT !.pc = "done",
                 !.thrown = error,
                 !.settled = "fulfilled",
                 !.result = [success |-> FALSE, error |-> error.message]]

\* lines 99-109: the call up to its first await; fetch is issued.
\* onChunk is TRUE when the caller passed a callback.
ScmBegin(sessionId, message, onChunk) ==
    [pc |-> "fetch",
     request |-> [url |-> ChatSendMessage(sessionId),
                  options |-> [method |-> "POST",
                               headers |-> [ContentType |-> "application/json"],
                               body |-> [json |-> [message |-> message]]]],
     onChunk |-> onChunk,
     decoder |-> NewTextDecoder,
     fullResponse |-> << >>,
     reads |-> 0,           \* reader.read() calls issued
     chunks |-> << >>,      \* the arguments of the onChunk calls, in order
     log |-> << >>,         \* reads issued, reads settled, onChunk calls, in order
     thrown |-> NoException,
     settled |-> "pending",
     result |-> Null]

\* The same without the check of response.ok
ScmOnFetchIgnoringStatus(call, fo) ==
    IF fo.kind = "reject"
    THEN ScmCatch(call, fo.error)
    ELSE IF fo.body = "null"
         THEN ScmCatch(call, Exception("TypeError", GetReaderOfNullMessage))
         ELSE [call EXCEPT !.pc = "read", !.reads = 1, !.log = <<"read">>]

\* lines 103-120 resume: fetch settled with outcome fo; on a successful
\* status the reader is taken and the first read is issued
ScmOnFetch(call, fo) ==
    IF fo.kind = "reject"
    THEN ScmCatch(call, fo.error)
    ELSE IF ~fo.ok
         THEN ScmCatch(call, Exception("Error", GenericFailure))
         ELSE IF fo.body = "null"
              THEN ScmCatch(call, Exception("TypeError", GetReaderOfNullMessage))
              ELSE [call EXCEPT !.pc = "read", !.reads = 1, !.log = <<"read">>]

\* The same with decoder.decode(value), which keeps nothing between chunks
ScmOnReadPerChunk(call, ro) ==
    CASE ro.kind = "reject" ->
            ScmCatch([call EXCEPT !.log = Append(@, "settled")], ro.error)
      [] ro.kind = "done" ->
            [call EXCEPT !.pc = "done",
                         !.log = Append(@, "settled"),
                         !.settled = "fulfilled",
                         !.result = [success |-> TRUE,
                                     data |-> [ai_response |->
                                                [message |-> call.fullResponse]]]]
      [] ro.kind = "chunk" ->
            LET decoded == DecodeStream(NewTextDecoder, ro.value)
                chunk == decoded.text
                          \o (IF decoded.pending = NewTextDecoder.pending
                              THEN << >> ELSE <<ReplacementChar>>)
            IN  [call EXCEPT !.fullResponse = @ \o chunk,
                             !.chunks = IF call.onChunk THEN Append(@, chunk) ELSE @,
                             !.log = @ \o <<"settled">>
                                       \o (IF call.onChunk THEN <<"onChunk">> ELSE << >>)
                                       \o <<"read">>,
                             !.reads = @ + 1]

\* The same with the next read issued before the chunk is handed to onChunk
ScmOnReadAhead(call, ro) ==
    CASE ro.kind = "reject" ->
            ScmCatch([call EXCEPT !.log = Append(@, "settled")], ro.error)
      [] ro.kind = "done" ->
            [call EXCEPT !.pc = "done",
                         !.log = Append(@, "settled"),
                         !.settled = "fulfilled",
                         !.result = [success |-> TRUE,
                                     data |-> [ai_response |->
                                                [message |-> call.fullResponse]]]]
      [] ro.kind = "chunk" ->
            LET decoded == DecodeStream(call.decoder, ro.value)
                chunk == decoded.text
            IN  [call EXCEPT !.decoder = [pending |-> decoded.pending],
                             !.fullResponse = @ \o chunk,
                             !.chunks = IF call.onChunk THEN Append(@, chunk) ELSE @,
                             !.log = @ \o <<"settled", "read">>
                                       \o (IF call.onChunk THEN <<"onChunk">> ELSE << >>),
                             !.reads = @ + 1]

\* lines 120-131 resume: the read settled with outcome ro; a chunk is
\* decoded, accumulated and handed to onChunk, and the next read is issued
ScmOnRead(call, ro) ==
    CASE ro.kind = "reject" ->
            ScmCatch([call EXCEPT !.log = Append(@, "settled")], ro.error)
      [] ro.kind = "done" ->
            [call EXCEPT !.pc = "done",
                         !.log = Append(@, "settled"),
                         !.settled = "fulfilled",
                         !.result = [success |-> TRUE,
                                     data |-> [ai_response |->
                                                [message |-> call.fullResponse]]]]
      [] ro.kind = "chunk" ->
            LET decoded == DecodeStream(call.decoder, ro.value)
                chunk == decoded.text
            IN  [call EXCEPT !.decoder = [pending |-> decoded.pending],
                             !.fullResponse = @ \o chunk,
                             !.chunks = IF call.onChunk THEN Append(@, chunk) ELSE @,
                             !.log = @ \o <<"settled">>
                                       \o (IF call.onChunk THEN <<"onChunk">> ELSE << >>)
                                       \o <<"read">>,
                             !.reads = @ + 1]

----------------------------------------------------------------------------
(* The network, as sendChatMessage sees it *)

MaxChunks == 3

StreamBytes == {97, 195, 169}

\* The chunks a read can deliver: one or two bytes.
ByteChunks ==
    {<<b>> : b \in StreamBytes} \cup {<<b, c>> : b, c \in StreamBytes}

StreamStatuses == {200, 404, 500}

StreamFetchOutcomes ==
    FetchRejects
    \cup {[kind |-> "response", ok |-> StatusOk(s), status |-> s, body |-> b] :
             s \in StreamStatuses, b \in {"stream", "null"}}

ReadRejects ==
    {[kind |-> "reject", error |-> Exception("TypeError", m)] :
        m \in {"network error", "The operation was aborted."}}

ChatMessages == {<<"a">>, <<"a", " ", "b">>}

----------------------------------------------------------------------------
(* COMMANDS_ONLY.md: the renderers of the page controller *)

Min(S) == CHOOSE x \in S : \A y \in S : x <= y

\* a || b on strings
OrElse(a, b) == IF a # "" THEN a ELSE b

WhiteSpace == {" ", "\n", "\t"}

\* String.prototype.trim
RECURSIVE TrimStart(_)
TrimStart(text) ==
    IF text # << >> /\ Head(text) \in WhiteSpace THEN TrimStart(Tail(text)) ELSE text

RECURSIVE TrimEnd(_)
TrimEnd(text) ==
    IF text # << >> /\ text[Len(text)] \in WhiteSpace
    THEN TrimEnd(SubSeq(text, 1, Len(text) - 1)) ELSE text

\* value taken as typed
NoTrim(text) == text

Trim(text) == TrimEnd(TrimStart(text))

\* line 313: /\*\*(.*?)\*\*/g, the leftmost pair of ** with no newline between
RECURSIVE ReplaceBold(_)
ReplaceBold(text) ==
    IF text = << >> THEN << >>
    ELSE LET n == Len(text)
             ends == IF n >= 4 /\ text[1] = "*" /\ text[2] = "*"
                     THEN {e \in 3..(n - 1) :
                              /\ text[e] = "*" /\ text[e + 1] = "*"
                              /\ \A k \in 3..(e - 1) : text[k] # "\n"}
                     ELSE {}
         IN  IF ends # {}
             THEN LET e == Min(ends)
                  IN  <<"<strong>">> \o SubSeq(text, 3, e - 1) \o <<"</strong>">>
                      \o ReplaceBold(SubSeq(text, e + 2, n))
             ELSE <<Head(text)>> \o ReplaceBold(Tail(text))

\* line 314: /^### (.+)$/gm on one line
ReplaceHeading(line) ==
    IF Len(line) >= 5 /\ SubSeq(line, 1, 4) = <<"#", "#", "#", " ">>
    THEN <<"<h3>">> \o SubSeq(line, 5, Len(line)) \o <<"</h3>">>
    ELSE line

\* line 315: /^- (.+)$/gm on one line
ReplaceListItem(line) ==
    IF Len(line) >= 3 /\ SubSeq(line, 1, 2) = <<"-", " ">>
    THEN <<"<li>">> \o SubSeq(line, 3, Len(line)) \o <<"</li>">>
    ELSE line

\* The lines of a text: ^ and $ of a multiline pattern match at each newline.
RECURSIVE Lines(_)
Lines(text) ==
    LET breaks == {i \in 1..Len(text) : text[i] = "\n"}
    IN  IF breaks = {} THEN <<text>>
        ELSE LET i == Min(breaks)
             IN  <<SubSeq(text, 1, i - 1)>> \o Lines(SubSeq(text, i + 1, Len(text)))

RECURSIVE JoinLines(_)
JoinLines(lines) ==
    IF Len(lines) = 1 THEN lines[1]
    ELSE lines[1] \o <<"\n">> \o JoinLines(Tail(lines))

ReplaceHeadings(text) ==
    LET lines == Lines(text)
    IN  JoinLines([i \in 1..Len(lines) |-> ReplaceHeading(lines[i])])

ReplaceListItems(text) ==
    LET lines == Lines(text)
    IN  JoinLines([i \in 1..Len(lines) |-> ReplaceListItem(lines[i])])

\* line 316
ReplaceNewlines(text) ==
    [i \in 1..Len(text) |-> IF text[i] = "\n" THEN "<br>" ELSE text[i]]

\* The newline rule applied first
renderMarkdownNewlinesFirst(text) ==
    ReplaceListItems(ReplaceHeadings(ReplaceBold(ReplaceNewlines(text))))

\* lines 311-317
renderMarkdown(text) ==
    ReplaceNewlines(ReplaceListItems(ReplaceHeadings(ReplaceBold(text))))

\* Thresholds exclusive on the high side
getConfidenceColorStrict(confidence) ==
    IF confidence > 800 THEN "#10b981"
    ELSE IF confidence > 600 THEN "#f59e0b"
         ELSE "#ef4444"

\* lines 198-202; the confidence is in thousandths
getConfidenceColor(confidence) ==
    IF confidence >= 800 THEN "#10b981"
    ELSE IF confidence >= 600 THEN "#f59e0b"
         ELSE "#ef4444"

\* lines 174-195: what the result card shows
displayComplaintResult(data) ==
    [display |-> "block",
     complaintId |-> data.complaint.id,
     predictedCategory |-> OrElse(data.complaint.category_display,
                                  data.complaint.predicted_category),
     confidenceColor |-> getConfidenceColor(data.complaint.prediction_confidence),
     \* (confidence * 100).toFixed(1): the percent and its first decimal
     confidencePercent |-> <<data.complaint.prediction_confidence \div 10,
                             data.complaint.prediction_confidence % 10>>,
     analysis |-> OrElse(data.complaint.analysis, "No analysis available.")]

\* The nodes in use: the bubbles of the list and those a pending sendMessage
\* holds a reference to.
NodesOf(messages) == {messages[i].node : i \in 1..Len(messages)}

FreshNode(used) == Min((1..(Cardinality(used) + 1)) \ used)

\* lines 277-308: the list after appendMessage(role, text); node is the new div
appendMessage(messages, node, role, text) ==
    Append(messages,
           [node |-> node,
            role |-> role,
            roleLabel |-> IF role = "user" THEN "You" ELSE "AI Mechanic",
            asHtml |-> role = "assistant",
            content |-> IF role = "assistant" THEN renderMarkdown(text) ELSE text])

\* lines 264-274: the list is emptied and every message appended
RECURSIVE AppendAll(_, _, _)
AppendAll(messages, loaded, used) ==
    IF loaded = << >> THEN messages
    ELSE LET node == FreshNode(used \cup NodesOf(messages))
         IN  AppendAll(appendMessage(messages, node, Head(loaded).role,
                                     Head(loaded).message),
                       Tail(loaded), used)

displayMessages(loaded, used) == AppendAll(<< >>, loaded, used)

\* lines 235-249
displayChatInterface(d, car, complaint) ==
    [d EXCEPT !.chat = "block",
              !.chatCarInfo = <<car.display_name, " (", car.license_plate, ")">>,
              !.chatComplaintCategory = OrElse(complaint.category_display,
                                               complaint.predicted_category),
              !.chatMessages = << >>]

\* lines 421-457
displaySearchResults(data) ==
    IF Len(data.complaints) = 0
    THEN [kind |-> "noComplaints"]
    ELSE [kind |-> "results",
          vehicle |-> data.car.display_name,
          licensePlate |-> data.car.license_plate,
          customer |-> data.car.customer.name,
          total |-> Len(data.complaints),
          cards |-> [i \in 1..Len(data.complaints) |->
                      LET c == data.complaints[i] IN
                      [category |-> OrElse(c.category_display, c.predicted_category),
                       created |-> c.created_at,
                       crash |-> IF c.crash THEN "CRASH" ELSE "",
                       fire |-> IF c.fire THEN "FIRE" ELSE "",
                       text |-> OrElse(c.complaint_text, "N/A")]]]

\* A spinner that is shown and never hidden
showLoadingStuck(d, show) ==
    IF show THEN [d EXCEPT !.loadingSpinner = "flex"] ELSE d

\* lines 462-465
showLoading(d, show) ==
    [d EXCEPT !.loadingSpinner = IF show THEN "flex" ELSE "none"]

----------------------------------------------------------------------------
(* The page after DOMContentLoaded *)

NoTask == [kind |-> "none"]

NoStep == [handler |-> "none", step |-> "none", task |-> NoTask,
           result |-> Null, alerts |-> << >>, requests |-> << >>]

InitDom ==
    [chat |-> "none",
     chatCarInfo |-> << >>,
     chatComplaintCategory |-> "",
     chatMessages |-> << >>,
     loadingSpinner |-> "none",
     messageInput |-> << >>,
     resultCard |-> [display |-> "none"],
     searchResults |-> [kind |-> "empty"]]

\* lines 88-90
InitApp ==
    /\ currentComplaint = Null
    /\ currentChatSession = Null
    /\ currentCar = Null
    /\ dom = InitDom
    /\ tasks = << >>
    /\ actions = 0
    /\ last = NoStep

----------------------------------------------------------------------------
(* What the user enters and what the backend answers *)

MaxActions == 4
MaxStreamReads == 2

\* The complaint form as filled in: the contact fields, and the numeric
\* fields as typed.
Forms ==
    {[customer_email |-> "", customer_phone |-> "", car_year |-> "2015", car_mileage |-> "120000"],
     [customer_email |-> "a@b.c", customer_phone |-> "", car_year |-> "", car_mileage |-> ""],
     [customer_email |-> "", customer_phone |-> "555", car_year |-> "2015", car_mileage |-> "0"]}

ChatInputs == {<< >>, <<" ", "\n">>, <<"a">>, <<" ", "b", " ">>}
PlateInputs == {<< >>, <<" ">>, <<" ", "A", "1">>}

Car1 == [id |-> "car1", display_name |-> "Toyota Corolla 2015",
         license_plate |-> "ABC 123", customer |-> [name |-> "Ali"]]
Car2 == [id |-> "car2", display_name |-> "Kia Rio 2019",
         license_plate |-> "XYZ 789", customer |-> [name |-> "Mona"]]

Complaint1 == [id |-> "complaint1", category_display |-> "Brakes",
               predicted_category |-> "BRAKES", prediction_confidence |-> 850,
               analysis |-> "Worn brake pads", complaint_text |-> "Brakes squeal",
               crash |-> FALSE, fire |-> FALSE, created_at |-> "2024-01-01T10:00:00Z"]
Complaint2 == [id |-> "complaint2", category_display |-> "",
               predicted_category |-> "ENGINE", prediction_confidence |-> 650,
               analysis |-> "", complaint_text |-> "",
               crash |-> TRUE, fire |-> TRUE, created_at |-> "2024-02-02T10:00:00Z"]

SubmitPayloads ==
    {[data |-> [complaint |-> Complaint1, car |-> Car1, customer |-> Car1.customer]],
     [data |-> [complaint |-> Complaint2, car |-> Car2, customer |-> Car2.customer]]}

\* The session the backend creates for the complaint of the request.
SessionPayloads(request) ==
    {[id |-> s, complaint |-> request.options.body.json.complaint_id] :
        s \in {"session1", "session2"}}

LoadedMessages ==
    {<< >>,
     <<[role |-> "assistant", message |-> <<"*", "*", "a", "*", "*">>]>>}

SessionDetailPayloads(request) ==
    {[id |-> request.url.id, messages |-> m] : m \in LoadedMessages}

ClosePayloads == {[status |-> JsString("closed")]}

CarPayloads == {Car1, Car2}

HistoryPayloads ==
    {[car |-> Car1, complaints |-> << >>],
     [car |-> Car1, complaints |-> <<Complaint1, Complaint2>>]}

OkResponse == [kind |-> "response", ok |-> TRUE, status |-> 200]

\* The two ways a JSON call fails: no response, an error response.
AppFailures ==
    {[fo |-> [kind |-> "reject", error |-> Exception("TypeError", "Failed to fetch")],
      jo |-> NoOutcome],
     [fo |-> [kind |-> "response", ok |-> FALSE, status |-> 500],
      jo |-> [kind |-> "json", value |-> [message |-> JsString("Server error")]]]}

AppOutcomes(payloads) ==
    {[fo |-> OkResponse, jo |-> [kind |-> "json", value |-> p]] : p \in payloads}
    \cup AppFailures

AppStreamFetchOutcomes ==
    {[kind |-> "reject", error |-> Exception("TypeError", "Failed to fetch")],
     [kind |-> "response", ok |-> FALSE, status |-> 500, body |-> "stream"],
     [kind |-> "response", ok |-> TRUE, status |-> 200, body |-> "stream"]}

AppChunks == {<<42, 42>>, <<97>>}

AppReadRejects ==
    {[kind |-> "reject", error |-> Exception("TypeError", "network error")]}

----------------------------------------------------------------------------
(* COMMANDS_ONLY.md: the handlers of the page controller *)

NaN == [jsonType |-> "NaN"]

\* parseInt on the texts the form of the model holds
ParseInt(raw) ==
    CASE raw = "2015" -> JsNumber(2015)
      [] raw = "120000" -> JsNumber(120000)
      [] raw = "0" -> JsNumber(0)
      [] OTHER -> NaN

\* lines 132-144
FormData(form) ==
    [customer_name |-> JsString("Ali"),
     customer_email |-> JsString(form.customer_email),
     customer_phone |-> JsString(form.customer_phone),
     license_plate |-> JsString("ABC 123"),
     car_make |-> JsString("Toyota"),
     car_model |-> JsString("Corolla"),
     car_year |-> IF Truthy(ParseInt(form.car_year))
                  THEN ParseInt(form.car_year) ELSE Undefined,
     car_mileage |-> IF Truthy(ParseInt(form.car_mileage))
                     THEN ParseInt(form.car_mileage) ELSE JsNumber(0),
     complaint_text |-> JsString("Brakes squeal"),
     crash |-> JsBoolean(FALSE),
     fire |-> JsBoolean(FALSE)]

ValidationAlert == "Please provide at least an email or phone number."
ChatErrorText == <<"Error: Could not get response from AI mechanic.">>

\* What a run of a handler did: the task it ran for (as it was before the
\* run), the result its await gave, the dialogs it showed, the requests it
\* issued.
Step(handler, step, task, result, alerts, requests) ==
    [handler |-> handler, step |-> step, task |-> task, result |-> result,
     alerts |-> alerts, requests |-> requests]

\* The same for the first run of a handler, with what the user had entered.
Call(handler, input, task, alerts, requests) ==
    [handler |-> handler, step |-> "call", input |-> input, task |-> task,
     result |-> Null, alerts |-> alerts, requests |-> requests]

\* a check against null in place of the truthiness test
ContactMissingNullCheck(formData) ==
    formData.customer_email = Null /\ formData.customer_phone = Null

\* line 147
ContactMissing(formData) ==
    ~Truthy(formData.customer_email) /\ ~Truthy(formData.customer_phone)

NewTaskId == Min((1..(Cardinality(DOMAIN tasks) + 1)) \ DOMAIN tasks)

Spawn(task) == tasks @@ (NewTaskId :> task)
Finish(t) == [i \in DOMAIN tasks \ {t} |-> tasks[i]]

ApiTask(kind, pc, request) ==
    [kind |-> kind, pc |-> pc, call |-> ApiBegin(request.url, request.options)]

\* The nodes a pending sendMessage still refers to.
HeldNodes ==
    UNION {{tasks[t].aiMessageDiv, tasks[t].userDiv} :
              t \in {u \in DOMAIN tasks : tasks[u].kind = "sendMessage"}}

UsedNodes == NodesOf(dom.chatMessages) \cup HeldNodes

RemoveNode(messages, node) ==
    SelectSeq(messages, LAMBDA m : m.node # node)

\* The text written into the last bubble of the list, whichever send it is of
SetInnerHTMLOfLast(messages, node, html) ==
    [i \in 1..Len(messages) |->
        IF i = Len(messages)
        THEN [messages[i] EXCEPT !.content = html] ELSE messages[i]]

SetInnerHTML(messages, node, html) ==
    [i \in 1..Len(messages) |->
        IF messages[i].node = node
        THEN [messages[i] EXCEPT !.content = html] ELSE messages[i]]

\* An awaited promise was rejected: the handler ends at its await.
Rejected(t) ==
    /\ tasks' = Finish(t)
    /\ last' = Step(tasks[t].kind, "rejected", tasks[t], Null, << >>, << >>)
    /\ UNCHANGED <<currentComplaint, currentChatSession, currentCar, dom, actions>>

\* lines 129-154: the handler up to its await
HandleComplaintSubmit ==
    /\ actions < MaxActions
    /\ actions' = actions + 1
    /\ \E form \in Forms :
          LET formData == FormData(form) IN
          IF ContactMissing(formData)
          THEN /\ last' = Call("handleComplaintSubmit", [form |-> form], NoTask,
                               <<ValidationAlert>>, << >>)
               /\ UNCHANGED <<dom, tasks>>
          ELSE LET task == ApiTask("handleComplaintSubmit", "submitComplaint",
                                   submitComplaint(formData))
               IN  /\ dom' = showLoading(dom, TRUE)
                   /\ tasks' = Spawn(task)
                   /\ last' = Call("handleComplaintSubmit", [form |-> form], task,
                                   << >>, <<task.call.request>>)
    /\ UNCHANGED <<currentComplaint, currentChatSession, currentCar>>
    /\ UNCHANGED <<apiVars, streamVars, pureVars>>

\* lines 154-171: submitComplaint answered
ComplaintSubmitted(t) ==
    /\ tasks[t].kind = "handleComplaintSubmit"
    /\ \E o \in AppOutcomes(SubmitPayloads) :
          LET call == ApiSettle(tasks[t].call, o)
              result == call.result
          IN  IF call.settled # "fulfilled" THEN Rejected(t)
              ELSE /\ tasks' = Finish(t)
                   /\ actions' = actions
                   /\ currentChatSession' = currentChatSession
                   /\ IF result.success
                      THEN /\ currentComplaint' = result.data.data.complaint
                           /\ currentCar' = result.data.data.car
                           /\ dom' = [showLoading(dom, FALSE) EXCEPT
                                        !.resultCard = displayComplaintResult(result.data.data)]
                           /\ last' = Step("handleComplaintSubmit", "resume", tasks[t],
                                           result, << >>, << >>)
                      ELSE /\ UNCHANGED <<currentComplaint, currentCar>>
                           /\ dom' = showLoading(dom, FALSE)
                           /\ last' = Step("handleComplaintSubmit", "resume", tasks[t],
                                           result,
                                           <<"Error submitting complaint: " \o result.error>>,
                                           << >>)
    /\ UNCHANGED <<apiVars, streamVars, pureVars>>

\* lines 205-214: the handler up to its await
StartChat ==
    /\ actions < MaxActions
    /\ actions' = actions + 1
    /\ IF currentComplaint = Null
       THEN /\ last' = Call("startChat", << >>, NoTask,
                            <<"No complaint selected">>, << >>)
            /\ UNCHANGED <<dom, tasks>>
       ELSE LET task == ApiTask("startChat", "createChatSession",
                                createChatSession(currentComplaint.id))
            IN  /\ dom' = showLoading(dom, TRUE)
                /\ tasks' = Spawn(task)
                /\ last' = Call("startChat", << >>, task, << >>,
                                <<task.call.request>>)
    /\ UNCHANGED <<currentComplaint, currentChatSession, currentCar>>
    /\ UNCHANGED <<apiVars, streamVars, pureVars>>

\* A startChat that drops the stored session when the request failed
ChatSessionCreatedOrCleared(t) ==
    /\ tasks[t].kind = "startChat"
    /\ \E o \in AppOutcomes(SessionPayloads(tasks[t].call.request)) :
          LET call == ApiSettle(tasks[t].call, o)
              result == call.result
          IN  IF call.settled # "fulfilled" THEN Rejected(t)
              ELSE /\ actions' = actions
                   /\ UNCHANGED <<currentComplaint, currentCar>>
                   /\ IF result.success
                      THEN LET load == ApiTask("loadChatMessages", "getChatSession",
                                               getChatSession(result.data.id))
                           IN  /\ currentChatSession' = result.data
                               /\ dom' = displayChatInterface(showLoading(dom, FALSE),
                                                              currentCar, currentComplaint)
                               /\ tasks' = [tasks EXCEPT ![t] = load]
                               /\ last' = Step("startChat", "resume", tasks[t], result,
                                               << >>, <<load.call.request>>)
                      ELSE /\ currentChatSession' = Null
                           /\ dom' = showLoading(dom, FALSE)
                           /\ tasks' = Finish(t)
                           /\ last' = Step("startChat", "resume", tasks[t], result,
                                           <<"Error starting chat: " \o result.error>>,
                                           << >>)
    /\ UNCHANGED <<apiVars, streamVars, pureVars>>

\* lines 214-232: createChatSession answered; on success the panel is shown
\* and loadChatMessages (lines 252-255) runs up to its await, not awaited
ChatSessionCreated(t) ==
    /\ tasks[t].kind = "startChat"
    /\ \E o \in AppOutcomes(SessionPayloads(tasks[t].call.request)) :
          LET call == ApiSettle(tasks[t].call, o)
              result == call.result
          IN  IF call.settled # "fulfilled" THEN Rejected(t)
              ELSE /\ actions' = actions
                   /\ UNCHANGED <<currentComplaint, currentCar>>
                   /\ IF result.success
                      THEN LET load == ApiTask("loadChatMessages", "getChatSession",
                                               getChatSession(result.data.id))
                           IN  /\ currentChatSession' = result.data
                               /\ dom' = displayChatInterface(showLoading(dom, FALSE),
                                                              currentCar, currentComplaint)
                               /\ tasks' = [tasks EXCEPT ![t] = load]
                               /\ last' = Step("startChat", "resume", tasks[t], result,
                                               << >>, <<load.call.request>>)
                      ELSE /\ currentChatSession' = currentChatSession
                           /\ dom' = showLoading(dom, FALSE)
                           /\ tasks' = Finish(t)
                           /\ last' = Step("startChat", "resume", tasks[t], result,
                                           <<"Error starting chat: " \o result.error>>,
                                           << >>)
    /\ UNCHANGED <<apiVars, streamVars, pureVars>>

\* lines 255-261: getChatSession answered
ChatMessagesLoaded(t) ==
    /\ tasks[t].kind = "loadChatMessages"
    /\ \E o \in AppOutcomes(SessionDetailPayloads(tasks[t].call.request)) :
          LET call == ApiSettle(tasks[t].call, o)
              result == call.result
          IN  IF call.settled # "fulfilled" THEN Rejected(t)
              ELSE /\ tasks' = Finish(t)
                   /\ dom' = IF result.success
                             THEN [dom EXCEPT !.chatMessages =
                                     displayMessages(result.data.messages, HeldNodes)]
                             ELSE dom
                   /\ last' = Step("loadChatMessages", "resume", tasks[t], result,
                                   << >>, << >>)
                   /\ UNCHANGED <<currentComplaint, currentChatSession, currentCar,
                                  actions>>
    /\ UNCHANGED <<apiVars, streamVars, pureVars>>

\* A sendMessage without the check of the session: the bubbles are appended
\* and reading the id of no session ends the handler
SendMessageUnchecked ==
    /\ actions < MaxActions
    /\ actions' = actions + 1
    /\ \E typed \in ChatInputs :
          LET message == Trim(typed) IN
          IF message = << >>
          THEN /\ dom' = [dom EXCEPT !.messageInput = typed]
               /\ last' = Call("sendMessage", [typed |-> typed], NoTask, << >>, << >>)
               /\ tasks' = tasks
          ELSE IF currentChatSession = Null
               THEN LET userDiv == FreshNode(UsedNodes)
                        aiMessageDiv == FreshNode(UsedNodes \cup {userDiv})
                    IN  /\ dom' = [dom EXCEPT
                                     !.messageInput = << >>,
                                     !.chatMessages =
                                        appendMessage(
                                          appendMessage(@, userDiv, "user", message),
                                          aiMessageDiv, "assistant", << >>)]
                        /\ last' = Call("sendMessage", [typed |-> typed], NoTask,
                                        << >>, << >>)
                        /\ tasks' = tasks
               ELSE LET userDiv == FreshNode(UsedNodes)
                        aiMessageDiv == FreshNode(UsedNodes \cup {userDiv})
                        task == [kind |-> "sendMessage",
                                 pc |-> "sendChatMessage",
                                 call |-> ScmBegin(currentChatSession.id, message, TRUE),
                                 userDiv |-> userDiv,
                                 aiMessageDiv |-> aiMessageDiv,
                                 fullResponse |-> << >>]
                    IN  /\ dom' = [dom EXCEPT
                                     !.messageInput = << >>,
                                     !.chatMessages =
                                        appendMessage(
                                          appendMessage(@, userDiv, "user", message),
                                          aiMessageDiv, "assistant", << >>)]
                        /\ tasks' = Spawn(task)
                        /\ last' = Call("sendMessage", [typed |-> typed], task, << >>,
                                        <<task.call.request>>)
    /\ UNCHANGED <<currentComplaint, currentChatSession, currentCar>>
    /\ UNCHANGED <<apiVars, streamVars, pureVars>>

\* lines 320-349: the handler up to the await of sendChatMessage; typed is the
\* value of the input when the handler starts
SendMessage ==
    /\ actions < MaxActions
    /\ actions' = actions + 1
    /\ \E typed \in ChatInputs :
          LET message == Trim(typed) IN
          IF message = << >>
          THEN /\ dom' = [dom EXCEPT !.messageInput = typed]
               /\ last' = Call("sendMessage", [typed |-> typed], NoTask, << >>, << >>)
               /\ tasks' = tasks
          ELSE IF currentChatSession = Null
               THEN /\ dom' = [dom EXCEPT !.messageInput = typed]
                    /\ last' = Call("sendMessage", [typed |-> typed], NoTask,
                                    <<"No active chat session">>, << >>)
                    /\ tasks' = tasks
               ELSE LET userDiv == FreshNode(UsedNodes)
                        aiMessageDiv == FreshNode(UsedNodes \cup {userDiv})
                        task == [kind |-> "sendMessage",
                                 pc |-> "sendChatMessage",
                                 call |-> ScmBegin(currentChatSession.id, message, TRUE),
                                 userDiv |-> userDiv,
                                 aiMessageDiv |-> aiMessageDiv,
                                 fullResponse |-> << >>]
                    IN  /\ dom' = [dom EXCEPT
                                     !.messageInput = << >>,
                                     !.chatMessages =
                                        appendMessage(
                                          appendMessage(@, userDiv, "user", message),
                                          aiMessageDiv, "assistant", << >>)]
                        /\ tasks' = Spawn(task)
                        /\ last' = Call("sendMessage", [typed |-> typed], task, << >>,
                                        <<task.call.request>>)
    /\ UNCHANGED <<currentComplaint, currentChatSession, currentCar>>
    /\ UNCHANGED <<apiVars, streamVars, pureVars>>

\* lines 351-359: sendChatMessage returned
MessageSent(t, call) ==
    IF call.settled # "fulfilled" THEN Rejected(t)
    ELSE /\ tasks' = Finish(t)
         /\ dom' = IF call.result.success THEN dom
                   ELSE [dom EXCEPT !.chatMessages =
                           appendMessage(RemoveNode(@, tasks[t].aiMessageDiv),
                                         FreshNode(UsedNodes), "system", ChatErrorText)]
         /\ last' = Step("sendMessage", "resume", tasks[t], call.result, << >>, << >>)
         /\ UNCHANGED <<currentComplaint, currentChatSession, currentCar, actions>>

\* the fetch of sendChatMessage settled
MessageFetchSettles(t) ==
    /\ tasks[t].kind = "sendMessage"
    /\ tasks[t].call.pc = "fetch"
    /\ \E fo \in AppStreamFetchOutcomes :
          LET call == ScmOnFetch(tasks[t].call, fo) IN
          IF call.pc = "done" THEN MessageSent(t, call)
          ELSE /\ tasks' = [tasks EXCEPT ![t].call = call]
               /\ last' = Step("sendMessage", "stream", tasks[t], Null, << >>, << >>)
               /\ UNCHANGED <<currentComplaint, currentChatSession, currentCar,
                              dom, actions>>
    /\ UNCHANGED <<apiVars, streamVars, pureVars>>

\* a read of sendChatMessage gave a chunk; lines 342-349: the callback adds
\* it to the text of this send and renders the text into the placeholder
MessageChunkRead(t) ==
    /\ tasks[t].kind = "sendMessage"
    /\ tasks[t].call.pc = "read"
    /\ tasks[t].call.reads <= MaxStreamReads
    /\ \E value \in AppChunks :
          LET call == ScmOnRead(tasks[t].call, [kind |-> "chunk", value |-> value])
              called == Len(call.chunks) > Len(tasks[t].call.chunks)
              fullResponse == IF called
                              THEN tasks[t].fullResponse \o call.chunks[Len(call.chunks)]
                              ELSE tasks[t].fullResponse
          IN  IF call.pc = "done" THEN MessageSent(t, call)
              ELSE /\ tasks' = [tasks EXCEPT ![t].call = call,
                                             ![t].fullResponse = fullResponse]
                   /\ dom' = IF called
                             THEN [dom EXCEPT !.chatMessages =
                                     SetInnerHTML(@, tasks[t].aiMessageDiv,
                                                  renderMarkdown(fullResponse))]
                             ELSE dom
                   /\ last' = Step("sendMessage", "chunk", tasks[t], Null, << >>, << >>)
                   /\ UNCHANGED <<currentComplaint, currentChatSession, currentCar,
                                  actions>>
    /\ UNCHANGED <<apiVars, streamVars, pureVars>>

\* a read of sendChatMessage reported the end of the stream, or failed
MessageStreamEnds(t) ==
    /\ tasks[t].kind = "sendMessage"
    /\ tasks[t].call.pc = "read"
    /\ \E ro \in {[kind |-> "done"]} \cup AppReadRejects :
          MessageSent(t, ScmOnRead(tasks[t].call, ro))
    /\ UNCHANGED <<apiVars, streamVars, pureVars>>

\* lines 369-377: the handler up to its await; confirmed is the user's answer
CloseChat ==
    /\ actions < MaxActions
    /\ actions' = actions + 1
    /\ IF currentChatSession = Null
       THEN /\ last' = Call("closeChat", << >>, NoTask, << >>, << >>)
            /\ UNCHANGED <<dom, tasks>>
       ELSE \E confirmed \in BOOLEAN :
               IF ~confirmed
               THEN /\ last' = Call("closeChat", [confirmed |-> FALSE], NoTask,
                                    << >>, << >>)
                    /\ UNCHANGED <<dom, tasks>>
               ELSE LET task == ApiTask("closeChat", "closeChatSession",
                                        closeChatSession(currentChatSession.id))
                    IN  /\ dom' = showLoading(dom, TRUE)
                        /\ tasks' = Spawn(task)
                        /\ last' = Call("closeChat", [confirmed |-> TRUE], task, << >>,
                                        <<task.call.request>>)
    /\ UNCHANGED <<currentComplaint, currentChatSession, currentCar>>
    /\ UNCHANGED <<apiVars, streamVars, pureVars>>

\* A closeChat that resets the page only when the request succeeded
ChatClosedOnlyOnSuccess(t) ==
    /\ tasks[t].kind = "closeChat"
    /\ \E o \in AppOutcomes(ClosePayloads) :
          LET call == ApiSettle(tasks[t].call, o) IN
          IF call.settled # "fulfilled" THEN Rejected(t)
          ELSE /\ tasks' = Finish(t)
               /\ IF call.result.success
                  THEN /\ dom' = [showLoading(dom, FALSE) EXCEPT !.chat = "none"]
                       /\ currentChatSession' = Null
                       /\ last' = Step("closeChat", "resume", tasks[t], call.result,
                                       <<"Chat session closed successfully">>, << >>)
                  ELSE /\ dom' = showLoading(dom, FALSE)
                       /\ currentChatSession' = currentChatSession
                       /\ last' = Step("closeChat", "resume", tasks[t], call.result,
                                       <<"Error closing chat: " \o call.result.error>>,
                                       << >>)
               /\ UNCHANGED <<currentComplaint, currentCar, actions>>
    /\ UNCHANGED <<apiVars, streamVars, pureVars>>

\* lines 377-388: closeChatSession answered
ChatClosed(t) ==
    /\ tasks[t].kind = "closeChat"
    /\ \E o \in AppOutcomes(ClosePayloads) :
          LET call == ApiSettle(tasks[t].call, o) IN
          IF call.settled # "fulfilled" THEN Rejected(t)
          ELSE /\ tasks' = Finish(t)
               /\ dom' = [showLoading(dom, FALSE) EXCEPT !.chat = "none"]
               /\ currentChatSession' = Null
               /\ last' = Step("closeChat", "resume", tasks[t], call.result,
                               <<"Chat session closed successfully">>, << >>)
               /\ UNCHANGED <<currentComplaint, currentCar, actions>>
    /\ UNCHANGED <<apiVars, streamVars, pureVars>>

\* lines 391-401: the handler up to its first await
SearchVehicle ==
    /\ actions < MaxActions
    /\ actions' = actions + 1
    /\ \E typed \in PlateInputs :
          LET licensePlate == Trim(typed) IN
          IF licensePlate = << >>
          THEN /\ last' = Call("searchVehicle", [typed |-> typed], NoTask,
                               <<"Please enter a license plate number">>, << >>)
               /\ UNCHANGED <<dom, tasks>>
          ELSE LET task == ApiTask("searchVehicle", "searchCarByPlate",
                                   searchCarByPlate(licensePlate))
               IN  /\ dom' = showLoading(dom, TRUE)
                   /\ tasks' = Spawn(task)
                   /\ last' = Call("searchVehicle", [typed |-> typed], task, << >>,
                                   <<task.call.request>>)
    /\ UNCHANGED <<currentComplaint, currentChatSession, currentCar>>
    /\ UNCHANGED <<apiVars, streamVars, pureVars>>

\* A searchVehicle that shows the error of a failed lookup
VehicleLookedUpShowingError(t) ==
    /\ tasks[t].kind = "searchVehicle"
    /\ tasks[t].pc = "searchCarByPlate"
    /\ \E o \in AppOutcomes(CarPayloads) :
          LET call == ApiSettle(tasks[t].call, o)
              result == call.result
          IN  IF call.settled # "fulfilled" THEN Rejected(t)
              ELSE /\ IF result.success
                      THEN LET next == ApiTask("searchVehicle", "getCarComplaintHistory",
                                               getCarComplaintHistory(result.data.id))
                           IN  /\ dom' = showLoading(dom, FALSE)
                               /\ tasks' = [tasks EXCEPT ![t] = next]
                               /\ last' = Step("searchVehicle", "resume", tasks[t],
                                               result, << >>, <<next.call.request>>)
                      ELSE /\ dom' = [showLoading(dom, FALSE) EXCEPT
                                        !.searchResults = [kind |-> "error",
                                                           text |-> result.error]]
                           /\ tasks' = Finish(t)
                           /\ last' = Step("searchVehicle", "resume", tasks[t],
                                           result, << >>, << >>)
                   /\ UNCHANGED <<currentComplaint, currentChatSession, currentCar,
                                  actions>>
    /\ UNCHANGED <<apiVars, streamVars, pureVars>>

\* lines 401-418: searchCarByPlate answered; on success the history is asked
VehicleLookedUp(t) ==
    /\ tasks[t].kind = "searchVehicle"
    /\ tasks[t].pc = "searchCarByPlate"
    /\ \E o \in AppOutcomes(CarPayloads) :
          LET call == ApiSettle(tasks[t].call, o)
              result == call.result
          IN  IF call.settled # "fulfilled" THEN Rejected(t)
              ELSE /\ IF result.success
                      THEN LET next == ApiTask("searchVehicle", "getCarComplaintHistory",
                                               getCarComplaintHistory(result.data.id))
                           IN  /\ dom' = showLoading(dom, FALSE)
                               /\ tasks' = [tasks EXCEPT ![t] = next]
                               /\ last' = Step("searchVehicle", "resume", tasks[t],
                                               result, << >>, <<next.call.request>>)
                      ELSE /\ dom' = [showLoading(dom, FALSE) EXCEPT
                                        !.searchResults = [kind |-> "notFound"]]
                           /\ tasks' = Finish(t)
                           /\ last' = Step("searchVehicle", "resume", tasks[t],
                                           result, << >>, << >>)
                   /\ UNCHANGED <<currentComplaint, currentChatSession, currentCar,
                                  actions>>
    /\ UNCHANGED <<apiVars, streamVars, pureVars>>

\* lines 409-413: getCarComplaintHistory answered
HistoryLoaded(t) ==
    /\ tasks[t].kind = "searchVehicle"
    /\ tasks[t].pc = "getCarComplaintHistory"
    /\ \E o \in AppOutcomes(HistoryPayloads) :
          LET call == ApiSettle(tasks[t].call, o)
              result == call.result
          IN  IF call.settled # "fulfilled" THEN Rejected(t)
              ELSE /\ tasks' = Finish(t)
                   /\ dom' = IF result.success
                             THEN [dom EXCEPT !.searchResults =
                                     displaySearchResults(result.data)]
                             ELSE dom
                   /\ last' = Step("searchVehicle", "history", tasks[t], result,
                                   << >>, << >>)
                   /\ UNCHANGED <<currentComplaint, currentChatSession, currentCar,
                                  actions>>
    /\ UNCHANGED <<apiVars, streamVars, pureVars>>

Init ==
    /\ apiCall = [pc |-> "idle"]
    /\ apiNet = [fetch |-> NoOutcome, json |-> NoOutcome]
    /\ scm = [pc |-> "idle"]
    /\ scmNet = [fetch |-> NoOutcome, read |-> NoOutcome]
    /\ delivered = << >>
    /\ InitApp
    /\ pure = NoPureCall

Next ==
    \/ HandleComplaintSubmit
    \/ \E t \in DOMAIN tasks : ComplaintSubmitted(t)
    \/ StartChat
    \/ \E t \in DOMAIN tasks : ChatSessionCreated(t)
    \/ \E t \in DOMAIN tasks : ChatMessagesLoaded(t)
    \/ SendMessage
    \/ \E t \in DOMAIN tasks : MessageFetchSettles(t)
    \/ \E t \in DOMAIN tasks : MessageChunkRead(t)
    \/ \E t \in DOMAIN tasks : MessageStreamEnds(t)
    \/ CloseChat
    \/ \E t \in DOMAIN tasks : ChatClosed(t)
    \/ SearchVehicle
    \/ \E t \in DOMAIN tasks : VehicleLookedUp(t)
    \/ \E t \in DOMAIN tasks : HistoryLoaded(t)

Spec == Init /\ [][Next]_vars

----------------------------------------------------------------------------
(* SpecApi: one call of apiRequest *)

ApiIdle == [pc |-> "idle"]
ScmIdle == [pc |-> "idle"]

ApiCallStart ==
    /\ apiCall.pc = "idle"
    /\ \E r \in ApiRequests : apiCall' = ApiBegin(r.url, r.options)
    /\ UNCHANGED <<apiNet, streamVars, appVars, pureVars>>

ApiFetchSettles ==
    /\ apiCall.pc = "fetch"
    /\ \E fo \in FetchOutcomes :
          /\ apiCall' = ApiOnFetch(apiCall, fo)
          /\ apiNet' = [apiNet EXCEPT !.fetch = fo]
    /\ UNCHANGED <<streamVars, appVars, pureVars>>

ApiJsonSettles ==
    /\ apiCall.pc = "json"
    /\ \E jo \in JsonOutcomes :
          /\ apiCall' = ApiOnJson(apiCall, jo)
          /\ apiNet' = [apiNet EXCEPT !.json = jo]
    /\ UNCHANGED <<streamVars, appVars, pureVars>>

InitApi ==
    /\ apiCall = ApiIdle
    /\ apiNet = [fetch |-> NoOutcome, json |-> NoOutcome]
    /\ scm = ScmIdle
    /\ scmNet = [fetch |-> NoOutcome, read |-> NoOutcome]
    /\ delivered = << >>
    /\ InitApp
    /\ pure = NoPureCall

NextApi ==
    \/ ApiCallStart
    \/ ApiFetchSettles
    \/ ApiJsonSettles

SpecApi == InitApi /\ [][NextApi]_vars

----------------------------------------------------------------------------
(* SpecStream: one call of sendChatMessage *)

StreamCallStart ==
    /\ scm.pc = "idle"
    /\ \E m \in ChatMessages, cb \in BOOLEAN : scm' = ScmBegin("session1", m, cb)
    /\ UNCHANGED <<scmNet, delivered, apiVars, appVars, pureVars>>

StreamFetchSettles ==
    /\ scm.pc = "fetch"
    /\ \E fo \in StreamFetchOutcomes :
          /\ scm' = ScmOnFetch(scm, fo)
          /\ scmNet' = [scmNet EXCEPT !.fetch = fo]
    /\ UNCHANGED <<delivered, apiVars, appVars, pureVars>>

StreamReadChunk ==
    /\ scm.pc = "read"
    /\ Len(delivered) < MaxChunks
    /\ \E value \in ByteChunks :
          /\ scm' = ScmOnRead(scm, [kind |-> "chunk", value |-> value])
          /\ delivered' = Append(delivered, value)
    /\ UNCHANGED <<scmNet, apiVars, appVars, pureVars>>

StreamReadDone ==
    /\ scm.pc = "read"
    /\ scm' = ScmOnRead(scm, [kind |-> "done"])
    /\ scmNet' = [scmNet EXCEPT !.read = [kind |-> "done"]]
    /\ UNCHANGED <<delivered, apiVars, appVars, pureVars>>

StreamReadFails ==
    /\ scm.pc = "read"
    /\ \E ro \in ReadRejects :
          /\ scm' = ScmOnRead(scm, ro)
          /\ scmNet' = [scmNet EXCEPT !.read = ro]
    /\ UNCHANGED <<delivered, apiVars, appVars, pureVars>>

InitStream ==
    /\ apiCall = ApiIdle
    /\ apiNet = [fetch |-> NoOutcome, json |-> NoOutcome]
    /\ scm = ScmIdle
    /\ scmNet = [fetch |-> NoOutcome, read |-> NoOutcome]
    /\ delivered = << >>
    /\ InitApp
    /\ pure = NoPureCall

NextStream ==
    \/ StreamCallStart
    \/ StreamFetchSettles
    \/ StreamReadChunk
    \/ StreamReadDone
    \/ StreamReadFails

SpecStream == InitStream /\ [][NextStream]_vars

----------------------------------------------------------------------------
(* One call of a renderer followed alone: renderMarkdown on a chat text,    *)
(* getConfidenceColor on a confidence.                                      *)

MaxPieces == 4
MaxConfidence == 1000

\* What a chat text is put together from: the markers of the four rules,
\* their single characters, a letter and a space.
MarkdownPieces ==
    {<<"*", "*">>, <<"#", "#", "#", " ">>, <<"-", " ">>,
     <<"x">>, <<" ">>, <<"*">>, <<"#">>, <<"-">>}

\* The lines of at most n pieces
RECURSIVE PieceLines(_)
PieceLines(n) ==
    IF n <= 0 THEN {<< >>}
    ELSE LET shorter == PieceLines(n - 1)
         IN  shorter \cup {l \o p : l \in shorter, p \in MarkdownPieces}

\* Texts of one line of at most MaxPieces pieces, of two lines of at most
\* two pieces and of three lines of at most one piece
MarkdownTexts ==
    PieceLines(MaxPieces)
    \cup {a \o <<"\n">> \o b : a, b \in PieceLines(2)}
    \cup {a \o <<"\n">> \o b \o <<"\n">> \o c : a, b, c \in PieceLines(1)}

\* Confidences in thousandths: 0.000 .. 1.000
Confidences == 0..MaxConfidence

RenderMarkdown ==
    /\ pure.fn = "renderMarkdown"
    /\ ~pure.done
    /\ pure' = [pure EXCEPT !.done = TRUE, !.html = renderMarkdown(pure.text)]
    /\ UNCHANGED <<apiVars, streamVars, appVars>>

GetConfidenceColor ==
    /\ pure.fn = "getConfidenceColor"
    /\ ~pure.done
    /\ pure' = [pure EXCEPT !.done = TRUE,
                            !.color = getConfidenceColor(pure.confidence)]
    /\ UNCHANGED <<apiVars, streamVars, appVars>>

InitPure ==
    /\ apiCall = ApiIdle
    /\ apiNet = [fetch |-> NoOutcome, json |-> NoOutcome]
    /\ scm = ScmIdle
    /\ scmNet = [fetch |-> NoOutcome, read |-> NoOutcome]
    /\ delivered = << >>
    /\ InitApp
    /\ pure \in {[fn |-> "renderMarkdown", text |-> t, done |-> FALSE, html |-> << >>] :
                    t \in MarkdownTexts}
                \cup {[fn |-> "getConfidenceColor", confidence |-> c, done |-> FALSE,
                       color |-> ""] : c \in Confidences}

NextPure ==
    \/ RenderMarkdown
    \/ GetConfidenceColor

SpecPure == InitPure /\ [][NextPure]_vars

----------------------------------------------------------------------------
(* Claims about apiRequest (SpecApi) *)

Failure(message) == [success |-> FALSE, error |-> message]

IsResult(r) ==
    \/ DOMAIN r = {"success", "data"} /\ r.success = TRUE
    \/ DOMAIN r = {"success", "error"} /\ r.success = FALSE

\* C1: apiRequest never throws to its caller.  Whatever fetch and
\* response.json() do (resolve, reject, non-2xx status, unparsable body), the
\* promise of the call is never rejected; once both have answered the call is
\* over, fulfilled with {success: true, data} or {success: false, error};
\* and when an exception was raised (a rejected fetch, a rejected json(), the
\* Error thrown for a non-2xx status) error is that exception's message.
C1_ApiNeverThrows ==
    /\ apiCall.pc # "idle" => apiCall.settled # "rejected"
    /\ (apiNet.fetch.kind = "reject" \/ apiNet.json.kind # "none") => apiCall.pc = "done"
    /\ apiCall.pc = "done" =>
          /\ apiCall.settled = "fulfilled"
          /\ IsResult(apiCall.result)
          /\ apiNet.fetch.kind = "reject" =>
                apiCall.result = Failure(apiNet.fetch.error.message)
          /\ apiNet.json.kind = "reject" =>
                apiCall.result = Failure(apiNet.json.error.message)
          /\ apiCall.thrown # NoException =>
                apiCall.result = Failure(apiCall.thrown.message)
          /\ (apiCall.thrown = NoException) = apiCall.result.success

\* C1 witness: a 200 response whose body does not parse ended the call with
\* the parse error's message.
C1_Witness ==
    /\ apiCall.pc = "done"
    /\ apiNet.fetch.kind = "response" /\ apiNet.fetch.ok
    /\ apiNet.json.kind = "reject"
    /\ apiCall.result = Failure("Unexpected end of JSON input")

NonOkJson ==
    /\ apiCall.pc = "done"
    /\ apiNet.fetch.kind = "response" /\ ~apiNet.fetch.ok
    /\ apiNet.json.kind = "json"

HasMessageField(body) == IsObject(body) /\ "message" \in DOMAIN body

\* C2 as claimed: for a non-2xx response whose body parses as JSON the error
\* text is the body's message field when the field is present, and the
\* generic fallback when the body has no message field.
C2_ErrorIsMessageWhenPresent ==
    NonOkJson =>
        LET body == apiNet.json.value IN
        apiCall.result =
            Failure(IF HasMessageField(body)
                    THEN JsToString(body.message) ELSE GenericFailure)

\* C2 as amended: for a non-2xx response whose body parses as JSON the error
\* text is the string form of the body's message field when the field is
\* present and truthy, the generic fallback when the body is not null and has
\* no message field or a falsy one ("", 0, false, null), and the engine's
\* TypeError message when the body is null.
C2_ErrorIsTruthyMessageOrFallback ==
    NonOkJson =>
        LET body == apiNet.json.value IN
        apiCall.result =
            Failure(IF body = Null THEN NullPropertyMessage
                    ELSE IF HasMessageField(body) /\ Truthy(body.message)
                         THEN JsToString(body.message)
                         ELSE GenericFailure)

\* C2 witness: a 404 whose body carries an empty message gave the fallback.
C2_Witness ==
    /\ NonOkJson
    /\ apiNet.fetch.status = 404
    /\ apiNet.json.value = [message |-> JsString("")]
    /\ apiCall.result = Failure(GenericFailure)

----------------------------------------------------------------------------
(* Claims about sendChatMessage (SpecStream) *)

StreamChars == {"a", "U+00E9"}

IsPrefix(p, q) == Len(p) <= Len(q) /\ SubSeq(q, 1, Len(p)) = p

\* The text whose UTF-8 encoding is bytes, found character by character from
\* Utf8Encode; a byte that starts no character of StreamChars gives a text
\* whose encoding is not bytes.
RECURSIVE TextOfBytes(_)
TextOfBytes(bytes) ==
    IF bytes = << >> THEN << >>
    ELSE LET starts == {c \in StreamChars : IsPrefix(Utf8Encode(<<c>>), bytes)}
         IN  IF starts = {} THEN <<ReplacementChar>>
             ELSE LET c == CHOOSE x \in starts : TRUE
                  IN  <<c>> \o TextOfBytes(SubSeq(bytes, Len(Utf8Encode(<<c>>)) + 1, Len(bytes)))

StreamSucceeded ==
    /\ scm.pc = "done"
    /\ scmNet.fetch.kind = "response" /\ scmNet.fetch.ok /\ scmNet.fetch.body = "stream"
    /\ scmNet.read.kind = "done"

\* C3: when a successful streaming response delivered, in any chunks, the
\* UTF-8 bytes of a text T, sendChatMessage returns the success result whose
\* ai_response.message is T, and onChunk was called once per chunk, in stream
\* order: the arguments of the first k calls are the characters completed by
\* the first k chunks, and all the arguments concatenate to T.
C3_StreamReturnsConcatenation ==
    StreamSucceeded =>
        LET bytes == Flatten(delivered)
            T == TextOfBytes(bytes)
        IN  Utf8Encode(T) = bytes =>
              /\ scm.result = [success |-> TRUE,
                               data |-> [ai_response |-> [message |-> T]]]
              /\ scm.onChunk =>
                    /\ Len(scm.chunks) = Len(delivered)
                    /\ Flatten(scm.chunks) = T
                    /\ \A k \in 1..Len(delivered) :
                          LET got == Utf8Encode(Flatten(SubSeq(scm.chunks, 1, k)))
                              sent == Flatten(SubSeq(delivered, 1, k))
                          IN  IsPrefix(got, sent) /\ Len(sent) - Len(got) <= 1

\* C3 witness: a two-byte character split over two chunks was returned whole.
C3_Witness ==
    /\ StreamSucceeded
    /\ scm.onChunk
    /\ delivered = << <<97, 195>>, <<169>>, <<97>> >>
    /\ scm.chunks = << <<"a">>, <<"U+00E9">>, <<"a">> >>
    /\ scm.result.data.ai_response.message = <<"a", "U+00E9", "a">>

\* C4: when the response of the send-message request has a non-successful
\* status, sendChatMessage returns a failure result, no read of the response
\* stream was ever issued and onChunk was never called.
C4_NonOkStatusShortCircuits ==
    (scmNet.fetch.kind = "response" /\ ~scmNet.fetch.ok) =>
        /\ scm.pc = "done"
        /\ scm.settled = "fulfilled"
        /\ scm.result = Failure(GenericFailure)
        /\ scm.reads = 0
        /\ scm.chunks = << >>
        /\ delivered = << >>

\* C4 witness: a 404 with a body stream ended the call without a read.
C4_Witness ==
    /\ scm.pc = "done"
    /\ scmNet.fetch.kind = "response" /\ scmNet.fetch.status = 404
    /\ scmNet.fetch.body = "stream"
    /\ scm.onChunk
    /\ scm.reads = 0
    /\ ~scm.result.success

\* C5: when the fetch or a stream read of sendChatMessage raises an
\* exception, after any number of chunks already read, the call resolves to
\* {success: false, error} with the exception's message, and the result has
\* no field carrying the text accumulated so far.
C5_ExceptionDiscardsPartialText ==
    /\ scm.pc # "idle" => scm.settled # "rejected"
    /\ scmNet.fetch.kind = "reject" =>
          /\ scm.pc = "done" /\ scm.settled = "fulfilled"
          /\ scm.result = Failure(scmNet.fetch.error.message)
    /\ scmNet.read.kind = "reject" =>
          /\ scm.pc = "done" /\ scm.settled = "fulfilled"
          /\ scm.result = Failure(scmNet.read.error.message)
          /\ DOMAIN scm.result = {"success", "error"}

\* C5 witness: a read failed after two chunks had been read and accumulated.
C5_Witness ==
    /\ scm.pc = "done"
    /\ scmNet.read.kind = "reject"
    /\ Len(delivered) = 2
    /\ scm.fullResponse = <<"a", "U+00E9">>
    /\ scm.result = Failure("network error")

\* how many of the first n entries of the log are event
RECURSIVE CountOf(_, _, _)
CountOf(log, event, n) ==
    IF n = 0 THEN 0
    ELSE CountOf(log, event, n - 1) + (IF log[n] = event THEN 1 ELSE 0)

\* C15: within one sendChatMessage call at most one stream read is
\* outstanding at any time (after every event of the call the reads issued
\* are the reads settled, or one more), and the next read is issued only
\* after the read before it has settled and, when a callback was given,
\* after onChunk has been called with that chunk and has returned: the k-th
\* onChunk call comes before the (k+1)-th read.
C15_OneReadOutstanding ==
    scm.pc \in {"read", "done"} =>
        LET log == scm.log IN
        /\ \A n \in 0..Len(log) :
              CountOf(log, "read", n) - CountOf(log, "settled", n) \in {0, 1}
        /\ (CountOf(log, "read", Len(log)) - CountOf(log, "settled", Len(log)) = 1)
              = (scm.pc = "read")
        /\ CountOf(log, "read", Len(log)) = scm.reads
        /\ \A i \in 2..Len(log) :
              /\ log[i] = "read" =>
                    log[i - 1] = (IF scm.onChunk THEN "onChunk" ELSE "settled")
              /\ log[i] = "onChunk" => log[i - 1] = "settled"
        /\ scm.onChunk =>
              /\ CountOf(log, "onChunk", Len(log)) = Len(scm.chunks)
              /\ Len(scm.chunks) = Len(delivered)

\* C15 witness: two chunks were read with a callback and the third read is
\* outstanding.
C15_Witness ==
    /\ scm.pc = "read"
    /\ scm.onChunk
    /\ scm.log = <<"read", "settled", "onChunk", "read", "settled", "onChunk", "read">>
    /\ Len(delivered) = 2

----------------------------------------------------------------------------
(* Claims about the page controller (Spec) *)

\* the run that led to this state
Ran(handler, step) == last.handler = handler /\ last.step = step

\* the step being taken is that run
Runs(handler, step) ==
    /\ last'.handler = handler /\ last'.step = step
    /\ (step = "call") = (actions' = actions + 1)
    /\ <<tasks', last', dom', actions'>> # <<tasks, last, dom, actions>>

IsBlank(text) == \A i \in 1..Len(text) : text[i] \in WhiteSpace

\* C6: when closeChat, confirmed on an active session, resumes after its
\* close request, the stored chat session is none and the chat panel is
\* hidden, whether the request succeeded or failed.
C6_CloseAlwaysClears ==
    Ran("closeChat", "resume") =>
        /\ currentChatSession = Null
        /\ dom.chat = "none"

\* C6 witness: a close request that failed left no session and no panel.
C6_Witness ==
    /\ Ran("closeChat", "resume")
    /\ last.task.kind = "closeChat"
    /\ ~last.result.success
    /\ currentChatSession = Null
    /\ dom.chat = "none"

\* C7 as claimed: when the streaming call of sendMessage returned a failure,
\* the placeholder bubble of that send is not in the message list, the last
\* bubble is the system-role error message with the fixed text, and the user
\* bubble that send appended is in the list.
C7_FailedSendKeepsUserBubble ==
    (Ran("sendMessage", "resume") /\ ~last.result.success) =>
        LET list == dom.chatMessages IN
        /\ last.task.aiMessageDiv \notin NodesOf(list)
        /\ list # << >>
        /\ list[Len(list)].role = "system"
        /\ list[Len(list)].content = ChatErrorText
        /\ \E i \in 1..Len(list) :
              /\ list[i].node = last.task.userDiv
              /\ list[i].role = "user"
              /\ list[i].content = last.task.call.request.options.body.json.message

\* C8: sendMessage with an input that is empty or only whitespace issues no
\* request, starts no call and leaves the message list as it was, whether a
\* chat session is stored or not.
C8_BlankSendDoesNothing ==
    [][(Runs("sendMessage", "call") /\ IsBlank(last'.input.typed)) =>
          /\ last'.requests = << >>
          /\ last'.task = NoTask
          /\ tasks' = tasks
          /\ dom'.chatMessages = dom.chatMessages]_vars

\* C8 witness: a whitespace-only input was sent while a session was active
\* and a bubble of an earlier send was in the list.
C8_Witness ==
    /\ Ran("sendMessage", "call")
    /\ last.input.typed = <<" ", "\n">>
    /\ currentChatSession # Null
    /\ dom.chatMessages # << >>
    /\ last.requests = << >>

\* C9: handleComplaintSubmit with the email and the phone field both empty
\* shows the validation message, issues no request, starts no call, and
\* leaves the current complaint and the current car as they were.
C9_MissingContactStopsSubmit ==
    [][(/\ Runs("handleComplaintSubmit", "call")
        /\ last'.input.form.customer_email = ""
        /\ last'.input.form.customer_phone = "") =>
          /\ last'.alerts = <<ValidationAlert>>
          /\ last'.requests = << >>
          /\ last'.task = NoTask
          /\ tasks' = tasks
          /\ currentComplaint' = currentComplaint
          /\ currentCar' = currentCar]_vars

\* C9 witness: the form was submitted without contact after a complaint had
\* been stored, and the complaint is still the current one.
C9_Witness ==
    /\ Ran("handleComplaintSubmit", "call")
    /\ last.input.form.customer_email = ""
    /\ last.input.form.customer_phone = ""
    /\ last.alerts = <<ValidationAlert>>
    /\ currentComplaint = Complaint1
    /\ currentCar = Car1

\* C10: the stored chat session changes in two ways only: a startChat whose
\* session-creation request succeeded stores the session of the answer, and
\* a closeChat that was confirmed and has resumed after its close request
\* sets it to none.  A failed Start, a declined Close, Send, Submit and
\* Search leave it as it is.
C10_SessionLifecycle ==
    [][currentChatSession' # currentChatSession =>
          \/ /\ Runs("startChat", "resume")
             /\ last'.result.success
             /\ currentChatSession' = last'.result.data
             /\ currentChatSession' # Null
          \/ /\ Runs("closeChat", "resume")
             /\ last'.task.kind = "closeChat"
             /\ currentChatSession # Null
             /\ currentChatSession' = Null]_vars

\* C10 witness: a session was closed and a later Start stored a new one.
C10_Witness ==
    /\ Ran("startChat", "resume")
    /\ last.result.success
    /\ currentChatSession = last.result.data
    /\ actions = 4
    /\ tasks = (1 :> ApiTask("loadChatMessages", "getChatSession",
                             getChatSession(currentChatSession.id)))
    /\ dom.chat = "block"

IsHistoryRequest(request) == request.url.path = CarsHistory("").path
IsLookupRequest(request) == request.url.path = API_ENDPOINTS.cars.byPlate.path

\* C12: searchVehicle with a plate that is not blank first issues the
\* vehicle lookup alone; it issues the complaint-history request only when
\* it resumes with a successful lookup, for the id of the car the lookup
\* returned; when the lookup failed it issues no request, ends, and shows
\* the fixed not-found message, whatever the error was.  No other run of
\* any handler issues a history request.
C12_HistoryAfterLookup ==
    [][/\ (Runs("searchVehicle", "call") /\ ~IsBlank(last'.input.typed)) =>
             /\ Len(last'.requests) = 1
             /\ IsLookupRequest(last'.requests[1])
       /\ Runs("searchVehicle", "resume") =>
             IF last'.result.success
             THEN /\ Len(last'.requests) = 1
                  /\ last'.requests[1].url = CarsHistory(last'.result.data.id)
             ELSE /\ last'.requests = << >>
                  /\ last'.alerts = << >>
                  /\ dom'.searchResults = [kind |-> "notFound"]
                  /\ Cardinality(DOMAIN tasks') = Cardinality(DOMAIN tasks) - 1
       /\ (\E i \in 1..Len(last'.requests) : IsHistoryRequest(last'.requests[i])) =>
             /\ last'.handler = "searchVehicle"
             /\ last'.step = "resume"
             /\ last'.result.success]_vars

\* C12 witness: the lookup returned the second car and its history was asked.
C12_Witness ==
    /\ Ran("searchVehicle", "resume")
    /\ last.result.success
    /\ last.result.data = Car2
    /\ Len(last.requests) = 1
    /\ last.requests[1].url.id = "car2"
    /\ \E t \in DOMAIN tasks : tasks[t].pc = "getCarComplaintHistory"

\* the placeholders of the sends that are pending
PendingPlaceholders ==
    {tasks[t].aiMessageDiv : t \in {u \in DOMAIN tasks : tasks[u].kind = "sendMessage"}}

\* C14 as claimed: while a session stays the stored one, whatever Start's
\* message load, Send and Close do in whatever order, the message list is
\* append-only: every bubble of the list is still there after the step, in
\* the same place, with the same role and content, except that the
\* placeholder of a pending send may change its content and is removed when
\* its send fails.  (A Start that resumes opens the panel of its session
\* with an empty list; that step is not counted.)
C14_MessageListAppendOnly ==
    [][(/\ currentChatSession # Null
        /\ currentChatSession' = currentChatSession
        /\ ~Runs("startChat", "resume")) =>
          LET failed == IF Runs("sendMessage", "resume") /\ ~last'.result.success
                        THEN {last'.task.aiMessageDiv} ELSE {}
              kept == SelectSeq(dom.chatMessages, LAMBDA m : m.node \notin failed)
              new == dom'.chatMessages
          IN  /\ Len(new) >= Len(kept)
              /\ \A i \in 1..Len(kept) :
                    /\ new[i].node = kept[i].node
                    /\ new[i].role = kept[i].role
                    /\ \/ new[i].content = kept[i].content
                       \/ kept[i].node \in PendingPlaceholders]_vars

\* C16: startChat with no current complaint issues no request, starts no
\* call and leaves the stored chat session as it is; with a current
\* complaint it issues one request, the session-creation request, whose
\* body carries the identifier of that complaint.
C16_StartNeedsComplaint ==
    [][Runs("startChat", "call") =>
          /\ currentChatSession' = currentChatSession
          /\ IF currentComplaint = Null
             THEN /\ last'.requests = << >>
                  /\ last'.task = NoTask
                  /\ tasks' = tasks
             ELSE /\ Len(last'.requests) = 1
                  /\ last'.requests[1].url = API_ENDPOINTS.chat.createSession
                  /\ last'.requests[1].options.method = "POST"
                  /\ last'.requests[1].options.body =
                        [json |-> [complaint_id |-> currentComplaint.id]]]_vars

\* C16 witness: a chat was started for the second complaint.
C16_Witness ==
    /\ Ran("startChat", "call")
    /\ currentComplaint = Complaint2
    /\ last.requests[1].options.body.json.complaint_id = "complaint2"

\* C17: sendMessage with a message that is not blank while no chat session
\* is stored issues no request, starts no call and leaves the message list
\* as it is: no user, assistant or system bubble is appended.
C17_SendNeedsSession ==
    [][(/\ Runs("sendMessage", "call")
        /\ ~IsBlank(last'.input.typed)
        /\ currentChatSession = Null) =>
          /\ last'.requests = << >>
          /\ last'.task = NoTask
          /\ tasks' = tasks
          /\ dom'.chatMessages = dom.chatMessages]_vars

\* C17 witness: a message was sent after the chat had been closed, the list
\* still holding the loaded history.
C17_Witness ==
    /\ Ran("sendMessage", "call")
    /\ last.input.typed = <<" ", "b", " ">>
    /\ currentChatSession = Null
    /\ last.alerts = <<"No active chat session">>
    /\ Len(dom.chatMessages) = 1

PendingSends == {t \in DOMAIN tasks : tasks[t].kind = "sendMessage"}

\* every placeholder of a pending send that is in the list shows the
\* rendering of the chunks the call of that send has handed to onChunk
PlaceholdersShowOwnText ==
    /\ \A t \in PendingSends :
          \A i \in 1..Len(dom.chatMessages) :
             dom.chatMessages[i].node = tasks[t].aiMessageDiv =>
                /\ dom.chatMessages[i].role = "assistant"
                /\ dom.chatMessages[i].content =
                      renderMarkdown(Flatten(tasks[t].call.chunks))
    /\ \A t, u \in PendingSends :
          t # u => {tasks[t].aiMessageDiv, tasks[t].userDiv}
                      \cap {tasks[u].aiMessageDiv, tasks[u].userDiv} = {}

\* C18: when sendMessage calls overlap on a session, however their chunks
\* interleave, the streamed text of a call is rendered only into the
\* placeholder that call created: a placeholder in the list always shows
\* the rendering of exactly the chunks its own call has received, a chunk
\* changes no bubble but the placeholder of its call, and a failed call
\* removes its own placeholder and no other bubble.
C18_OverlappingSendsKeepApart ==
    [][/\ PlaceholdersShowOwnText
       /\ Runs("sendMessage", "chunk") =>
             /\ Len(dom'.chatMessages) = Len(dom.chatMessages)
             /\ \A i \in 1..Len(dom.chatMessages) :
                   \/ dom'.chatMessages[i] = dom.chatMessages[i]
                   \/ dom.chatMessages[i].node = last'.task.aiMessageDiv
       /\ (Runs("sendMessage", "resume") /\ ~last'.result.success) =>
             /\ Len(dom'.chatMessages) >= 1
             /\ SubSeq(dom'.chatMessages, 1, Len(dom'.chatMessages) - 1) =
                   RemoveNode(dom.chatMessages, last'.task.aiMessageDiv)]_vars

\* C18 witness: two sends are pending, their placeholders are both in the
\* list and show different texts, each that of its own call.
C18_Witness ==
    \E t, u \in PendingSends :
       \E i, j \in 1..Len(dom.chatMessages) :
          /\ t # u
          /\ dom.chatMessages[i].node = tasks[t].aiMessageDiv
          /\ dom.chatMessages[j].node = tasks[u].aiMessageDiv
          /\ Flatten(tasks[t].call.chunks) = <<"*", "*", "a">>
          /\ Flatten(tasks[u].call.chunks) = <<"a">>
          /\ dom.chatMessages[i].content = <<"*", "*", "a">>
          /\ dom.chatMessages[j].content = <<"a">>

\* what the backend returned for the complaint with this identifier
SubmittedAs(complaintId) ==
    (CHOOSE p \in SubmitPayloads : p.data.complaint.id = complaintId).data

\* C19 as claimed: when startChat resumes with a created session and renders
\* the chat panel, the vehicle line and the complaint-category line of the
\* panel are those of the complaint whose identifier the session-creation
\* request of that Start carried, however Start and complaint submissions
\* interleave.
C19_PanelShowsStartedComplaint ==
    (Ran("startChat", "resume") /\ last.result.success) =>
        LET sent == last.task.call.request.options.body.json.complaint_id
            of == SubmittedAs(sent)
        IN  /\ dom.chat = "block"
            /\ dom.chatCarInfo =
                  <<of.car.display_name, " (", of.car.license_plate, ")">>
            /\ dom.chatComplaintCategory =
                  OrElse(of.complaint.category_display, of.complaint.predicted_category)

\* the handlers that show the loading spinner
SpinnerHandlers == {"handleComplaintSubmit", "startChat", "closeChat", "searchVehicle"}

\* C20: Submit, Start, Close and Search show the loading spinner when they
\* issue their request and hide it when they resume after it, whether the
\* request succeeded or failed; so when no started handler is pending any
\* more the spinner is hidden.
C20_SpinnerHidden ==
    [][/\ \A h \in SpinnerHandlers :
             /\ (Runs(h, "call") /\ last'.requests # << >>) =>
                   dom'.loadingSpinner = "flex"
             /\ Runs(h, "resume") => dom'.loadingSpinner = "none"
       /\ DOMAIN tasks' = {} => dom'.loadingSpinner = "none"]_vars

\* C20 witness: a search whose lookup failed was the last handler to finish
\* and the spinner is hidden.
C20_Witness ==
    /\ Ran("searchVehicle", "resume")
    /\ ~last.result.success
    /\ last.result.error = "Failed to fetch"
    /\ DOMAIN tasks = {}
    /\ actions = MaxActions
    /\ dom.loadingSpinner = "none"

----------------------------------------------------------------------------
(* Claims about the renderers (SpecPure) *)

Rendered == pure.fn = "renderMarkdown" /\ pure.done

\* the line is the marker followed by at least one character
StartsWith(line, marker) == IsPrefix(marker, line) /\ Len(line) > Len(marker)

After(line, marker) == SubSeq(line, Len(marker) + 1, Len(line))

HeadingMarker == <<"#", "#", "#", " ">>
ListMarker == <<"-", " ">>

\* What a line of the text becomes: a heading line and a list line keep
\* their kind whatever bold they hold, and the bold is substituted inside.
RenderedLine(line) ==
    IF StartsWith(line, HeadingMarker)
    THEN <<"<h3>">> \o ReplaceBold(After(line, HeadingMarker)) \o <<"</h3>">>
    ELSE IF StartsWith(line, ListMarker)
         THEN <<"<li>">> \o ReplaceBold(After(line, ListMarker)) \o <<"</li>">>
         ELSE ReplaceBold(line)

RECURSIVE JoinWithBr(_)
JoinWithBr(lines) ==
    IF Len(lines) = 1 THEN lines[1]
    ELSE lines[1] \o <<"<br>">> \o JoinWithBr(Tail(lines))

\* C11: renderMarkdown applies bold, level-3 heading, list item and
\* newline-to-<br> in that order, each on the output of the one before:
\* "**x**" gives "<strong>x</strong>", "### x" gives "<h3>x</h3>", "- x"
\* gives "<li>x</li>", "x\nx" gives "x<br>x"; and the bold substitution does
\* not interfere with the line-anchored rules: every line of the text that
\* is a heading or a list line is rendered as one, with the bold substituted
\* inside it, and the lines are joined by <br>.
C11_RenderMarkdownRules ==
    Rendered =>
        LET lines == Lines(pure.text) IN
        /\ pure.html = JoinWithBr([i \in 1..Len(lines) |-> RenderedLine(lines[i])])
        /\ pure.text = <<"*", "*", "x", "*", "*">> =>
              pure.html = <<"<strong>", "x", "</strong>">>
        /\ pure.text = <<"#", "#", "#", " ", "x">> =>
              pure.html = <<"<h3>", "x", "</h3>">>
        /\ pure.text = <<"-", " ", "x">> => pure.html = <<"<li>", "x", "</li>">>
        /\ pure.text = <<"x", "\n", "x">> => pure.html = <<"x", "<br>", "x">>

\* C11 witness: a heading line holding bold was rendered as a heading with
\* the bold inside it.
C11_Witness ==
    /\ Rendered
    /\ pure.text = <<"#", "#", "#", " ", "*", "*", "x", "*", "*">>
    /\ pure.html = <<"<h3>", "<strong>", "x", "</strong>", "</h3>">>

Coloured == pure.fn = "getConfidenceColor" /\ pure.done

\* C13: getConfidenceColor gives the green tier for a confidence of 0.8 or
\* more, the amber tier from 0.6 up to but not including 0.8, and the red
\* tier below 0.6 (0.85 green, 0.65 amber, 0.4 red; 0.8 itself green, 0.6
\* itself amber).  Confidences are in thousandths.
C13_ConfidenceTiers ==
    Coloured =>
        LET c == pure.confidence IN
        /\ c >= 800 => pure.color = "#10b981"
        /\ (600 <= c /\ c < 800) => pure.color = "#f59e0b"
        /\ c < 600 => pure.color = "#ef4444"
        /\ c = 850 => pure.color = "#10b981"
        /\ c = 650 => pure.color = "#f59e0b"
        /\ c = 400 => pure.color = "#ef4444"

\* C13 witness: a confidence of exactly 0.6 was given the amber tier.
C13_Witness ==
    /\ Coloured
    /\ pure.confidence = 600
    /\ pure.color = "#f59e0b"

=============================================================================
